---- MODULE Spec2Model ----
(***************************************************************************)
(* DataformRepositoryResource (dagster_dataform/resources.py): resolution   *)
(* of the latest compilation result, construction of asset specs and asset  *)
(* check definitions from compilation result actions, and the eager / lazy  *)
(* life cycle of the memoized assets and asset checks of one resource.      *)
(*                                                                          *)
(* The Dataform service is modelled at its boundary: the list of            *)
(* compilation results of the repository, newest first (the order the       *)
(* resource asks for), each with the actions a query of it returns.  Other  *)
(* clients of the repository create compilation results at any time.        *)
(* One step of the resource is one remote call together with the local      *)
(* code that follows it, up to the next remote call.                        *)
(***************************************************************************)
EXTENDS Integers, Sequences, FiniteSets, TLC

\* ---------------------------------------------------------------- bounds
\* Compilation results created by other clients of the repository.
MaxExternal == 2
\* Length of the action lists given to the builders in SpecBuild.
MaxActions == 2

\* ---------------------------------------------------------------- values
\* Optional values: Python's None, and a value that is present.
None == <<>>
Some(x) == <<x>>

Envs == {"dev", "prod"}
Prefixes == {"", "tmp"}
Databases == {"staging", "production"}

Target(d, s, n) == [database |-> d, schema |-> s, name |-> n]

\* An unset message field of a compilation result action: the empty message,
\* which is falsy.
NoTarget == Target("", "", "")
NoRelation == [select_query |-> "", tags |-> {}, dependency_targets |-> <<>>]
NoAssertion == [parent_action |-> Target("", "", ""), dependency_targets |-> <<>>]

RelationAction(t, q, tags, deps) ==
    [target |-> t,
     relation |-> [select_query |-> q, tags |-> tags, dependency_targets |-> deps],
     assertion |-> NoAssertion]

AssertionAction(t, parent, deps) ==
    [target |-> t,
     relation |-> NoRelation,
     assertion |-> [parent_action |-> parent, dependency_targets |-> deps]]

\* `if asset.assertion:` -- a message is truthy when one of its fields is set.
IsAssertion(asset) == asset.assertion # NoAssertion

\* `if asset.relation` is never asked by the code; used by properties only.
IsRelation(asset) == asset.relation # NoRelation

\* ------------------------------------------------------- host framework
\* dagster rejects a group name or an op name outside ^[A-Za-z0-9_]+$ with an
\* exception, the empty name included; the names of this set stand for the
\* names it rejects.
InvalidDagsterNames == {"", "bad-name"}

\* Default of asset_fresh_policy_lag_minutes.
asset_fresh_policy_lag_minutes == 1440

DocsLink == "https://cvsdigital.atlassian.net/wiki/spaces/EDMLABCCM/pages/4616946342/Case+Activities+Entity+Data+Stream#"

\* Mutant of TargetNames: the dependency is named by schema and name.
RECURSIVE TargetQualifiedNames(_)
TargetQualifiedNames(targets) ==
    IF targets = <<>> THEN <<>>
    ELSE <<Head(targets).schema \o "." \o Head(targets).name>> \o TargetQualifiedNames(Tail(targets))

\* [target.name for target in dependency_targets]
RECURSIVE TargetNames(_)
TargetNames(targets) ==
    IF targets = <<>> THEN <<>>
    ELSE <<Head(targets).name>> \o TargetNames(Tail(targets))

\* The metadata both builders give an asset spec; [sql] and [/sql] stand for
\* the opening and closing code fence around the query.
BaseMetadata(asset) ==
    ("Project ID" :> asset.target.database)
    @@ ("Dataset" :> asset.target.schema)
    @@ ("Asset Name" :> asset.target.name)
    @@ ("Docs Link" :> (DocsLink \o asset.target.name))
    @@ ("Asset SQL Code" :> ("[sql]" \o asset.relation.select_query \o "[/sql]"))

\* dg.AssetSpec(...) raises for an invalid group name.
AssetSpecRaises(asset) == asset.target.schema \in InvalidDagsterNames

\* dg.AssetSpec(...) as _process_assets and load_dataform_assets call it;
\* deps is the list handed to it, of which the host keeps one per name.
AssetSpec(asset, metadata, lag) ==
    [key |-> asset.target.name,
     kinds |-> {"bigquery"},
     metadata |-> metadata,
     group_name |-> asset.target.schema,
     tags |-> [tag \in asset.relation.tags |-> ""],
     deps |-> TargetNames(asset.relation.dependency_targets),
     maximum_lag_minutes |-> lag]

\* The loop of _process_assets: one asset spec for every action whose
\* AssetSpec does not raise, in input order.
RECURSIVE _process_assets(_, _)
_process_assets(compilation_actions, compilation_result_name) ==
    IF compilation_actions = <<>> THEN <<>>
    ELSE LET asset == Head(compilation_actions)
             rest == _process_assets(Tail(compilation_actions), compilation_result_name)
             metadata == BaseMetadata(asset)
                         @@ ("dataform_compilation_result" :> compilation_result_name)
         IN  IF AssetSpecRaises(asset) THEN rest
             ELSE <<AssetSpec(asset, metadata, asset_fresh_policy_lag_minutes)>> \o rest

\* The loop of load_dataform_assets over the queried actions.
RECURSIVE load_dataform_assets_loop(_, _)
load_dataform_assets_loop(compilation_actions, fresh_policy_lag_minutes) ==
    IF compilation_actions = <<>> THEN <<>>
    ELSE LET asset == Head(compilation_actions)
             rest == load_dataform_assets_loop(Tail(compilation_actions), fresh_policy_lag_minutes)
         IN  IF AssetSpecRaises(asset) THEN rest
             ELSE <<AssetSpec(asset, BaseMetadata(asset), fresh_policy_lag_minutes)>> \o rest

\* dg.OpDefinition(name=asset.target.name, ...) raises for an invalid name.
CheckRaises(asset) == asset.target.name \in InvalidDagsterNames

\* The AssetChecksDefinition of one assertion: the check spec's name and the
\* asset key it is bound to.
AssetChecksDefinition(asset) ==
    [asset_key |-> asset.assertion.parent_action.name, name |-> asset.target.name]

\* The loop of _process_asset_checks.
RECURSIVE _process_asset_checks(_)
_process_asset_checks(compilation_actions) ==
    IF compilation_actions = <<>> THEN <<>>
    ELSE LET asset == Head(compilation_actions)
             rest == _process_asset_checks(Tail(compilation_actions))
         IN  IF IsAssertion(asset) /\ ~CheckRaises(asset)
             THEN <<AssetChecksDefinition(asset)>> \o rest
             ELSE rest

\* The loop of load_dataform_asset_check_specs: it first logs
\* asset.assertion.dependency_targets[0].name, an IndexError for an assertion
\* without dependency targets, caught like any other.
RECURSIVE load_dataform_asset_check_specs_loop(_)
load_dataform_asset_check_specs_loop(compilation_actions) ==
    IF compilation_actions = <<>> THEN <<>>
    ELSE LET asset == Head(compilation_actions)
             rest == load_dataform_asset_check_specs_loop(Tail(compilation_actions))
         IN  IF IsAssertion(asset)
                /\ asset.assertion.dependency_targets # <<>>
                /\ ~CheckRaises(asset)
             THEN <<AssetChecksDefinition(asset)>> \o rest
             ELSE rest

\* ------------------------------------------------------------- resolver
\* Mutant of Matches: the table prefix is not looked at.
MatchesAnyPrefix(compilation_result, environment) ==
    compilation_result.git_commitish = environment

\* The condition of the loop of get_latest_compilation_result_name.
Matches(compilation_result, environment) ==
    /\ compilation_result.git_commitish = environment
    /\ compilation_result.code_compilation_config.table_prefix = ""

\* Mutant of FirstMatch: when nothing matches, the newest result is returned.
FirstMatchOrNewest(compilation_results, environment) ==
    LET hits == {i \in 1..Len(compilation_results) : Matches(compilation_results[i], environment)}
    IN  IF hits # {}
        THEN Some(compilation_results[CHOOSE i \in hits : \A j \in hits : i <= j].name)
        ELSE IF compilation_results = <<>> THEN None
        ELSE Some(compilation_results[1].name)

\* The loop of get_latest_compilation_result_name over the listed results:
\* the name of the first one that matches, or None.
RECURSIVE FirstMatch(_, _)
FirstMatch(compilation_results, environment) ==
    IF compilation_results = <<>> THEN None
    ELSE IF Matches(Head(compilation_results), environment)
         THEN Some(Head(compilation_results).name)
         ELSE FirstMatch(Tail(compilation_results), environment)

\* ---------------------------------------------------------------- state
VARIABLES
    remote,                   \* the repository's compilation results, newest first
    external,                 \* how many of them other clients created
    environment,              \* self.environment
    skip_compilation,         \* self.skip_compilation
    _assets,                  \* self._assets: None, or Some(list of asset specs)
    _asset_checks,            \* self._asset_checks: None, or Some(list of checks)
    pc,                       \* where the resource is: the remote call it makes next
    op,                       \* the public operation running, or the last one run
    loader,                   \* the artifact being loaded: "assets" or "checks"
    calls,                    \* the remote calls of the operation op, in order
    result,                   \* how the operation op ended, and what it returned
    compilation_result_name,  \* the local of that name: None, or Some(name)
    response,                 \* None, or Some(what the list call of op returned)
    scoping_filter,           \* None, or Some(default_database the caller of op filters by)
    created,                  \* per artifact: None, or Some(name the create call returned)
    builtFrom,                \* per artifact: None, or Some(name whose actions built it)
    compilation_actions,      \* the action list handed to the builders (SpecBuild)
    arguments,                \* the arguments of a workflow invocation operation
    invocations,              \* the repository's workflow invocations: the state of each
    observed,                 \* None, or Some(last invocation state the monitor fetched)
    elapsed                   \* how long the monitor has waited between fetches

vars == <<remote, external, environment, skip_compilation, _assets, _asset_checks, pc, op, loader, calls, result, compilation_result_name, response, scoping_filter, created, builtFrom, compilation_actions, arguments, invocations, observed, elapsed>>

resourceVars == <<environment, skip_compilation>>

invocationVars == <<arguments, invocations, observed, elapsed>>

\* No workflow invocation operation has run.
NoInvocations ==
    /\ arguments = <<>>
    /\ invocations = <<>>
    /\ observed = <<>>
    /\ elapsed = 0

\* ----------------------------------------------------- the remote service
\* The projects a compilation may compile to: the actions its query returns.
Projects ==
    { <<>>,
      << RelationAction(Target("p", "ds", "a"), "select 1", {}, <<>>),
         AssertionAction(Target("p", "ds", "check_a"), Target("p", "ds", "a"), <<Target("p", "ds", "a")>>) >> }

CompilationResult(name, git_commitish, table_prefix, default_database, actions) ==
    [name |-> name,
     git_commitish |-> git_commitish,
     code_compilation_config |-> [table_prefix |-> table_prefix, default_database |-> default_database],
     compilation_result_actions |-> actions]

\* The name the service gives the next compilation result.
NextName == ToString(Len(remote) + 1)

\* What QueryCompilationResultActions returns for a name.
ActionsOf(name) ==
    LET i == CHOOSE i \in 1..Len(remote) : remote[i].name = name
    IN  remote[i].compilation_result_actions

Call(rpc, arg) == [rpc |-> rpc, arg |-> arg]

Returned(value) == [status |-> "ok", value |-> value]
Raised(error, value) == [status |-> error, value |-> value]

\* A remote call that fails raises out of the running operation; out of
\* __init__ it leaves no resource behind.
Fails(rpc, arg) ==
    /\ calls' = Append(calls, Call(rpc, arg))
    /\ result' = Raised("RemoteServiceError", None)
    /\ pc' = IF op = "__init__" THEN "aborted" ELSE "idle"
    /\ UNCHANGED <<remote, external, resourceVars, _assets, _asset_checks, op, loader, compilation_result_name, response, scoping_filter, created, builtFrom, compilation_actions, invocationVars>>

\* Another client of the repository creates a compilation result.  The
\* default_database is left unset here: the resource never reads it, and
\* SpecResolve draws it for the callers that filter by it.
ExternalCreate ==
    /\ external < MaxExternal
    /\ pc # "aborted"
    /\ \E e \in Envs, t \in Prefixes, a \in Projects :
          remote' = <<CompilationResult(NextName, e, t, "", a)>> \o remote
    /\ external' = external + 1
    /\ UNCHANGED <<resourceVars, _assets, _asset_checks, pc, op, loader, calls, result, compilation_result_name, response, scoping_filter, created, builtFrom, compilation_actions, invocationVars>>

\* ------------------------------------------------------------ resource
Running == [status |-> "running", value |-> None]

\* A public operation starts: nothing called, nothing resolved yet.
Starts(operation) ==
    /\ op' = operation
    /\ calls' = <<>>
    /\ compilation_result_name' = None
    /\ response' = None

\* What follows the query of the actions in each of the four loaders: the
\* builder, and the assignment of what it built.  from is None, or
\* Some(name of the compilation result the actions were queried from).

\* Mutant of _fetch_latest_compilation: the checks are built along with the
\* assets, from the same actions.
_fetch_latest_compilation_both(actions, from) ==
    LET value == _process_assets(actions, from[1])
    IN  /\ _assets' = Some(value)
        /\ _asset_checks' = Some(_process_asset_checks(actions))
        /\ result' = Returned(value)
        /\ builtFrom' = [assets |-> from, checks |-> from]
        /\ pc' = "idle"
        /\ UNCHANGED loader

\* Mutant of _fetch_latest_compilation: the asset specs are built as the eager
\* loader builds them, without the name of the compilation result.
_fetch_latest_compilation_unreferenced(actions, from) ==
    LET value == load_dataform_assets_loop(actions, asset_fresh_policy_lag_minutes)
    IN  /\ _assets' = Some(value)
        /\ result' = Returned(value)
        /\ builtFrom' = [builtFrom EXCEPT !.assets = from]
        /\ pc' = "idle"
        /\ UNCHANGED <<_asset_checks, loader>>

\* The getter of assets, through _fetch_latest_compilation.
_fetch_latest_compilation(actions, from) ==
    LET value == _process_assets(actions, from[1])
    IN  /\ _assets' = Some(value)
        /\ result' = Returned(value)
        /\ builtFrom' = [builtFrom EXCEPT !.assets = from]
        /\ pc' = "idle"
        /\ UNCHANGED <<_asset_checks, loader>>

\* The getter of asset_checks.
asset_checks_load(actions, from) ==
    LET value == _process_asset_checks(actions)
    IN  /\ _asset_checks' = Some(value)
        /\ result' = Returned(value)
        /\ builtFrom' = [builtFrom EXCEPT !.checks = from]
        /\ pc' = "idle"
        /\ UNCHANGED <<_assets, loader>>

\* load_dataform_assets, assigned to self.assets in __init__, which goes on
\* to load_dataform_asset_check_specs.
load_dataform_assets(actions, from) ==
    /\ _assets' = Some(load_dataform_assets_loop(actions, asset_fresh_policy_lag_minutes))
    /\ builtFrom' = [builtFrom EXCEPT !.assets = from]
    /\ pc' = "create"
    /\ loader' = "checks"
    /\ UNCHANGED <<_asset_checks, result>>

\* load_dataform_asset_check_specs, assigned to self.asset_checks in
\* __init__, which then returns.
load_dataform_asset_check_specs(actions, from) ==
    /\ _asset_checks' = Some(load_dataform_asset_check_specs_loop(actions))
    /\ builtFrom' = [builtFrom EXCEPT !.checks = from]
    /\ result' = Returned(None)
    /\ pc' = "idle"
    /\ UNCHANGED <<_assets, loader>>

Builds(actions, from) ==
    IF op = "assets" THEN _fetch_latest_compilation(actions, from)
    ELSE IF op = "asset_checks" THEN asset_checks_load(actions, from)
    ELSE IF loader = "assets" THEN load_dataform_assets(actions, from)
    ELSE load_dataform_asset_check_specs(actions, from)

\* What each caller of get_latest_compilation_result_name does with the name.

\* A caller of the method itself gets the name, or None.
ReturnsName(name) ==
    /\ result' = Returned(name)
    /\ pc' = "idle"
    /\ UNCHANGED <<_assets, _asset_checks, loader, builtFrom>>

\* Mutant of query_compilation_result: without a name it raises, as
\* _fetch_latest_compilation_actions does, and the constructor is abandoned.
query_compilation_result_raising(name) ==
    IF name = None
    THEN /\ result' = Raised("Exception", Some(environment))
         /\ pc' = "aborted"
         /\ UNCHANGED <<_assets, _asset_checks, loader, builtFrom>>
    ELSE /\ pc' = "query"
         /\ UNCHANGED <<_assets, _asset_checks, loader, builtFrom, result>>

\* query_compilation_result (the eager loaders): without a name it logs an
\* error and returns [], on which the loader's loop runs.
query_compilation_result(name) ==
    IF name = None
    THEN Builds(<<>>, None)
    ELSE /\ pc' = "query"
         /\ UNCHANGED <<_assets, _asset_checks, loader, builtFrom, result>>

\* Mutant of _fetch_latest_compilation_actions: without a name it goes on
\* with an empty action list, as query_compilation_result does.
_fetch_tolerating_missing(name) == query_compilation_result(name)

\* _fetch_latest_compilation_actions (the lazy getters): without a name it
\* raises an Exception whose message names self.environment.
_fetch_latest_compilation_actions(name) ==
    IF name = None
    THEN /\ result' = Raised("Exception", Some(environment))
         /\ pc' = "idle"
         /\ UNCHANGED <<_assets, _asset_checks, loader, builtFrom>>
    ELSE /\ pc' = "query"
         /\ UNCHANGED <<_assets, _asset_checks, loader, builtFrom, result>>

\* Mutant of __init__: skip_compilation is not looked at.
init_always_compiles ==
    /\ pc = "new"
    /\ Starts("__init__")
    /\ pc' = "create"
    /\ result' = Running
    /\ _assets' = None
    /\ _asset_checks' = None
    /\ loader' = "assets"
    /\ UNCHANGED <<remote, external, resourceVars, scoping_filter, created, builtFrom, compilation_actions, invocationVars>>

\* __init__: with skip_compilation both cells are left unloaded; without it
\* load_dataform_assets and then load_dataform_asset_check_specs run.
__init__ ==
    /\ pc = "new"
    /\ Starts("__init__")
    /\ IF skip_compilation
       THEN /\ pc' = "idle"
            /\ result' = Returned(None)
       ELSE /\ pc' = "create"
            /\ result' = Running
    /\ _assets' = None
    /\ _asset_checks' = None
    /\ loader' = "assets"
    /\ UNCHANGED <<remote, external, resourceVars, scoping_filter, created, builtFrom, compilation_actions, invocationVars>>

\* create_compilation_result(git_commitish=self.environment), the first call
\* of both eager loaders; the response is logged and dropped by the caller.
create_compilation_result ==
    /\ pc = "create"
    /\ \E ok \in BOOLEAN :
         IF ok
         THEN /\ \E a \in Projects :
                    remote' = <<CompilationResult(NextName, environment, "", "", a)>> \o remote
              /\ calls' = Append(calls, Call("CreateCompilationResult", environment))
              /\ created' = [created EXCEPT ![loader] = Some(NextName)]
              /\ pc' = "list"
              /\ UNCHANGED <<external, resourceVars, _assets, _asset_checks, op, loader, result, compilation_result_name, response, scoping_filter, builtFrom, compilation_actions, invocationVars>>
         ELSE Fails("CreateCompilationResult", environment)

\* get_latest_compilation_result_name: the list call and the loop over its
\* response, then what the caller does with the name.
get_latest_compilation_result_name ==
    /\ pc = "list"
    /\ \E ok \in BOOLEAN :
         IF ok
         THEN LET name == FirstMatch(remote, environment)
              IN  /\ calls' = Append(calls, Call("ListCompilationResults", ""))
                  /\ response' = Some(remote)
                  /\ compilation_result_name' = name
                  /\ IF op = "get_latest_compilation_result_name" THEN ReturnsName(name)
                     ELSE IF op = "__init__" THEN query_compilation_result(name)
                     ELSE _fetch_latest_compilation_actions(name)
                  /\ UNCHANGED <<remote, external, resourceVars, op, scoping_filter, created, compilation_actions, invocationVars>>
         ELSE Fails("ListCompilationResults", "")

\* client.query_compilation_result_actions(name=compilation_result_name), in
\* _fetch_latest_compilation_actions and in query_compilation_result, and the
\* builder that runs on the response.
query_compilation_result_actions ==
    /\ pc = "query"
    /\ \E ok \in BOOLEAN :
         IF ok
         THEN /\ calls' = Append(calls, Call("QueryCompilationResultActions", compilation_result_name[1]))
              /\ Builds(ActionsOf(compilation_result_name[1]), compilation_result_name)
              /\ UNCHANGED <<remote, external, resourceVars, op, compilation_result_name, response, scoping_filter, created, compilation_actions, invocationVars>>
         ELSE Fails("QueryCompilationResultActions", compilation_result_name[1])

\* Mutant of assets: `not self._assets` in place of `self._assets is None`.
assets_if_falsy ==
    /\ pc = "idle"
    /\ Starts("assets")
    /\ IF skip_compilation /\ (_assets = None \/ _assets = Some(<<>>))
       THEN /\ pc' = "list"
            /\ loader' = "assets"
            /\ result' = Running
       ELSE /\ pc' = "idle"
            /\ result' = Returned(IF _assets = None THEN <<>> ELSE _assets[1])
            /\ UNCHANGED loader
    /\ UNCHANGED <<remote, external, resourceVars, _assets, _asset_checks, scoping_filter, created, builtFrom, compilation_actions, invocationVars>>

\* The getter of assets.
assets ==
    /\ pc = "idle"
    /\ Starts("assets")
    /\ IF skip_compilation /\ _assets = None
       THEN /\ pc' = "list"
            /\ loader' = "assets"
            /\ result' = Running
       ELSE /\ pc' = "idle"
            /\ result' = Returned(IF _assets = None THEN <<>> ELSE _assets[1])
            /\ UNCHANGED loader
    /\ UNCHANGED <<remote, external, resourceVars, _assets, _asset_checks, scoping_filter, created, builtFrom, compilation_actions, invocationVars>>

\* The getter of asset_checks.
asset_checks ==
    /\ pc = "idle"
    /\ Starts("asset_checks")
    /\ IF skip_compilation /\ _asset_checks = None
       THEN /\ pc' = "list"
            /\ loader' = "checks"
            /\ result' = Running
       ELSE /\ pc' = "idle"
            /\ result' = Returned(IF _asset_checks = None THEN <<>> ELSE _asset_checks[1])
            /\ UNCHANGED loader
    /\ UNCHANGED <<remote, external, resourceVars, _assets, _asset_checks, scoping_filter, created, builtFrom, compilation_actions, invocationVars>>

\* A caller asks for the latest compilation result name.
find_latest ==
    /\ pc = "idle"
    /\ Starts("get_latest_compilation_result_name")
    /\ scoping_filter' = None
    /\ pc' = "list"
    /\ result' = Running
    /\ UNCHANGED <<remote, external, resourceVars, _assets, _asset_checks, loader, created, builtFrom, compilation_actions, invocationVars>>

\* A caller asks for it with a scoping filter, as the tests do:
\* get_latest_compilation_result_name(default_database=...).  The method takes
\* no such parameter, so the call raises TypeError before its body runs.
find_latest_filtered ==
    /\ pc = "idle"
    /\ Starts("get_latest_compilation_result_name")
    /\ \E default_database \in Databases : scoping_filter' = Some(default_database)
    /\ result' = Raised("TypeError", None)
    /\ pc' = "idle"
    /\ UNCHANGED <<remote, external, resourceVars, _assets, _asset_checks, loader, created, builtFrom, compilation_actions, invocationVars>>

\* ------------------------------------------------------- specification
NoneYet == [assets |-> None, checks |-> None]

Init ==
    /\ remote = <<>>
    /\ external = 0
    /\ environment \in Envs
    /\ skip_compilation \in BOOLEAN
    /\ _assets = None
    /\ _asset_checks = None
    /\ pc = "new"
    /\ op = "none"
    /\ loader = "assets"
    /\ calls = <<>>
    /\ result = Running
    /\ compilation_result_name = None
    /\ response = None
    /\ scoping_filter = None
    /\ created = NoneYet
    /\ builtFrom = NoneYet
    /\ compilation_actions = <<>>
    /\ NoInvocations

Next ==
    \/ ExternalCreate
    \/ __init__
    \/ create_compilation_result
    \/ get_latest_compilation_result_name
    \/ query_compilation_result_actions
    \/ assets
    \/ asset_checks

Spec == Init /\ [][Next]_vars

\* ------------------------------------- specification of the resolver alone
\* The resolver on every list of at most MaxListed compilation results: a
\* lazily constructed resource whose callers ask for the latest name.
MaxListed == 2

SnapshotParams == Envs \X Prefixes \X (Databases \cup {""})

\* The list the parameters f[1], ..., f[n] describe, newest first.
Listing(f, n) ==
    [i \in 1..n |-> CompilationResult(ToString(n + 1 - i), f[i][1], f[i][2], f[i][3], <<>>)]

Listings == UNION { { Listing(f, n) : f \in [1..n -> SnapshotParams] } : n \in 0..MaxListed }

InitResolve ==
    /\ remote \in Listings
    /\ external = 0
    /\ environment \in Envs
    /\ skip_compilation = TRUE
    /\ _assets = None
    /\ _asset_checks = None
    /\ pc = "idle"
    /\ op = "__init__"
    /\ loader = "assets"
    /\ calls = <<>>
    /\ result = Returned(None)
    /\ compilation_result_name = None
    /\ response = None
    /\ scoping_filter = None
    /\ created = NoneYet
    /\ builtFrom = NoneYet
    /\ compilation_actions = <<>>
    /\ NoInvocations

NextResolve ==
    \/ find_latest
    \/ get_latest_compilation_result_name
    \/ find_latest_filtered

SpecResolve == InitResolve /\ [][NextResolve]_vars

\* ------------------------------------- specification of the builders alone
\* The four builders on every list of at most MaxActions actions: the lazy
\* pair (_process_assets, _process_asset_checks) and the loops of the eager
\* pair (load_dataform_assets, load_dataform_asset_check_specs).
DependencyLists ==
    { <<>>,
      <<Target("p", "ds", "a")>>,
      <<Target("p", "ds", "a"), Target("p", "other", "a")>>,
      <<Target("p", "ds", "a"), Target("p", "ds", "b")>> }

Relations ==
    { RelationAction(Target("p", s, n), "select 1", tags, deps) :
        n \in {"a", "b"}, s \in {"ds", "bad-name"}, tags \in {{}, {"daily"}}, deps \in DependencyLists }
    \cup { RelationAction(NoTarget, "select 1", {}, <<>>) }

Assertions ==
    { AssertionAction(Target("p", "ds_assertions", n), Target("p", "ds", parent), deps) :
        n \in {"check_a", "bad-name"}, parent \in {"a", "zz"}, deps \in {<<>>, <<Target("p", "ds", "a")>>} }
    \cup { AssertionAction(NoTarget, Target("p", "ds", "a"), <<Target("p", "ds", "a")>>) }

ActionLists == UNION { [1..n -> Relations \cup Assertions] : n \in 0..MaxActions }

InitBuild ==
    /\ compilation_actions \in ActionLists
    /\ NoInvocations
    /\ remote = <<>>
    /\ external = 0
    /\ environment = "dev"
    /\ skip_compilation \in BOOLEAN
    /\ _assets = None
    /\ _asset_checks = None
    /\ pc = "build"
    /\ op = "none"
    /\ loader = "assets"
    /\ calls = <<>>
    /\ result = Running
    /\ compilation_result_name = Some("1")
    /\ response = None
    /\ scoping_filter = None
    /\ created = NoneYet
    /\ builtFrom = NoneYet

\* The lazy builders on the actions queried from compilation_result_name.
build_lazy ==
    /\ pc = "build"
    /\ skip_compilation
    /\ _assets' = Some(_process_assets(compilation_actions, compilation_result_name[1]))
    /\ _asset_checks' = Some(_process_asset_checks(compilation_actions))
    /\ pc' = "built"
    /\ UNCHANGED <<remote, external, resourceVars, op, loader, calls, result, compilation_result_name, response, scoping_filter, created, builtFrom, compilation_actions, invocationVars>>

\* The loops of the eager loaders on the same actions.
build_eager ==
    /\ pc = "build"
    /\ ~skip_compilation
    /\ _assets' = Some(load_dataform_assets_loop(compilation_actions, asset_fresh_policy_lag_minutes))
    /\ _asset_checks' = Some(load_dataform_asset_check_specs_loop(compilation_actions))
    /\ pc' = "built"
    /\ UNCHANGED <<remote, external, resourceVars, op, loader, calls, result, compilation_result_name, response, scoping_filter, created, builtFrom, compilation_actions, invocationVars>>

NextBuild ==
    \/ build_lazy
    \/ build_eager

SpecBuild == InitBuild /\ [][NextBuild]_vars

\* ------------------------------------------------- workflow invocations
\* Targets of an invocation, at most this many in one call.
MaxTargets == 2
\* Workflow invocations created in the repository.
MaxInvocations == 2

\* An element of included_targets: a str, or a dict.  A dict is a function of
\* the keys it has; "" stands for any falsy value of a key.
Name(value) == [str |-> value]
Dict(value) == [dict |-> value]

\* isinstance(target, dict)
IsDict(target) == "dict" \in DOMAIN target

\* target.get(key): None (falsy, "") for a key the dict has not.
Get(dict, key) == IF key \in DOMAIN dict THEN dict[key] ELSE ""

\* dataform_v1.Target(**target_kwargs): a field not passed is unset, which for
\* a string field of the message reads "".
TargetMessage(target_kwargs) ==
    Target(Get(target_kwargs, "database"), Get(target_kwargs, "schema"), Get(target_kwargs, "name"))

\* The body of the loop over included_targets.
RequestTarget(target) ==
    IF IsDict(target)
    THEN LET truthy == {key \in {"database", "schema", "name"} : Get(target.dict, key) # ""}
             target_kwargs == [key \in truthy |-> target.dict[key]]
         IN  TargetMessage(target_kwargs)
    ELSE TargetMessage("name" :> target.str)

RECURSIVE RequestTargets(_)
RequestTargets(included_targets) ==
    IF included_targets = <<>> THEN <<>>
    ELSE <<RequestTarget(Head(included_targets))>> \o RequestTargets(Tail(included_targets))

\* Truthiness of service_account: None and "" are falsy.
ServiceAccountGiven(service_account) == service_account # None /\ service_account # Some("")

\* Mutant of HasOptions: the service account alone does not count.
HasTargetsOrTags(args) ==
    args.included_targets # <<>> \/ args.included_tags # <<>>

\* `if included_targets or included_tags or service_account:` -- None and the
\* empty list are both falsy, and both are <<>> here.
HasOptions(args) ==
    \/ args.included_targets # <<>>
    \/ args.included_tags # <<>>
    \/ ServiceAccountGiven(args.service_account)

\* Mutant of DefaultFlags: upstream dependencies are not included by default.
DefaultFlagsNoUpstream ==
    [transitive_dependencies_included |-> FALSE,
     transitive_dependents_included |-> FALSE,
     fully_refresh_incremental_tables_enabled |-> FALSE]

\* The defaults of the three flags in the signature.
DefaultFlags ==
    [transitive_dependencies_included |-> TRUE,
     transitive_dependents_included |-> FALSE,
     fully_refresh_incremental_tables_enabled |-> FALSE]

\* The value of a flag in the body: the one passed, or its default.
Flag(args, flag) == IF args[flag] = None THEN DefaultFlags[flag] ELSE args[flag][1]

InvocationConfig(args) ==
    [transitive_dependencies_included |-> Flag(args, "transitive_dependencies_included"),
     transitive_dependents_included |-> Flag(args, "transitive_dependents_included"),
     fully_refresh_incremental_tables_enabled |-> Flag(args, "fully_refresh_incremental_tables_enabled"),
     included_targets |-> RequestTargets(args.included_targets),
     included_tags |-> args.included_tags,
     service_account |-> IF ServiceAccountGiven(args.service_account) THEN args.service_account[1] ELSE ""]

\* The workflow invocation of the request create_workflow_invocation sends.
WorkflowInvocation(args) ==
    [compilation_result |-> args.compilation_result_name,
     invocation_config |-> IF HasOptions(args) THEN Some(InvocationConfig(args)) ELSE None]

\* The arguments a caller passes.  A flag is None when the caller leaves it
\* to its default.
TargetInputs ==
    { Name("t"), Name(""),
      Dict(("database" :> "p") @@ ("schema" :> "ds") @@ ("name" :> "t")),
      Dict("name" :> "u"),
      Dict(("database" :> "p") @@ ("schema" :> "") @@ ("name" :> "t")),
      Dict(("database" :> "p") @@ ("schema" :> "ds")),
      Dict(("database" :> "p") @@ ("name" :> "")),
      Dict("table" :> "t") }

TargetInputLists == UNION { [1..n -> TargetInputs] : n \in 0..MaxTargets }

OptionalFlags == {None, Some(TRUE), Some(FALSE)}

Arguments ==
    [compilation_result_name : {"1"},
     included_targets : TargetInputLists,
     included_tags : {<<>>, <<"daily">>, <<"hourly", "daily">>},
     transitive_dependencies_included : OptionalFlags,
     transitive_dependents_included : OptionalFlags,
     fully_refresh_incremental_tables_enabled : OptionalFlags,
     service_account : {None, Some(""), Some("sa")}]

\* The name the service gives the next workflow invocation.
NextInvocationName == ToString(Len(invocations) + 1)

\* create_workflow_invocation, called with the arguments of the state: the
\* request is built and sent; the response, the workflow invocation created,
\* is returned.
create_workflow_invocation ==
    /\ pc = "idle"
    /\ arguments # None
    /\ Len(invocations) < MaxInvocations
    /\ op' = "create_workflow_invocation"
    /\ calls' = <<Call("CreateWorkflowInvocation", WorkflowInvocation(arguments))>>
    /\ \E ok \in BOOLEAN :
         IF ok
         THEN /\ invocations' = Append(invocations, "PENDING")
              /\ result' = Returned(NextInvocationName)
         ELSE /\ invocations' = invocations
              /\ result' = Raised("RemoteServiceError", None)
    /\ pc' = "idle"
    /\ UNCHANGED <<remote, external, resourceVars, _assets, _asset_checks, loader, compilation_result_name, response, scoping_filter, created, builtFrom, compilation_actions, arguments, observed, elapsed>>

\* ------------------------------------- specification of the planner alone
\* A lazily constructed resource whose callers create workflow invocations,
\* on every choice of the arguments.
InitPlan ==
    /\ remote = <<>>
    /\ external = 0
    /\ environment = "dev"
    /\ skip_compilation = TRUE
    /\ _assets = None
    /\ _asset_checks = None
    /\ pc = "idle"
    /\ op = "__init__"
    /\ loader = "assets"
    /\ calls = <<>>
    /\ result = Returned(None)
    /\ compilation_result_name = None
    /\ response = None
    /\ scoping_filter = None
    /\ created = NoneYet
    /\ builtFrom = NoneYet
    /\ compilation_actions = <<>>
    /\ arguments \in Arguments
    /\ invocations = <<>>
    /\ observed = None
    /\ elapsed = 0

NextPlan == create_workflow_invocation

SpecPlan == InitPlan /\ [][NextPlan]_vars

\* ------------------------------------------------------------- monitor
\* The longest poll interval and the longest timeout a caller passes.
MaxPollInterval == 2
MaxTimeout == 3

\* The states of a workflow invocation: PENDING -> RUNNING -> a terminal one.
TerminalStates == {"SUCCEEDED", "FAILED", "CANCELLED"}

SuccessorStates(state) ==
    IF state = "PENDING" THEN {"RUNNING"}
    ELSE IF state = "RUNNING" THEN TerminalStates
    ELSE {}

\* The service runs a workflow invocation one state further.
InvocationAdvances ==
    /\ \E i \in 1..Len(invocations) :
          \E state \in SuccessorStates(invocations[i]) :
              invocations' = [invocations EXCEPT ![i] = state]
    /\ UNCHANGED <<remote, external, resourceVars, _assets, _asset_checks, pc, op, loader, calls, result, compilation_result_name, response, scoping_filter, created, builtFrom, compilation_actions, arguments, observed, elapsed>>

\* The response of GetWorkflowInvocation for a name.
WorkflowInvocationOf(name) ==
    LET i == CHOOSE i \in 1..Len(invocations) : ToString(i) = name
    IN  [name |-> name, state |-> invocations[i]]

\* Mutant of get_workflow_invocation_details: a FAILED or CANCELLED workflow
\* invocation is raised as an error.
get_workflow_invocation_details_raising ==
    /\ pc = "idle"
    /\ op' = "get_workflow_invocation_details"
    /\ \E i \in 1..Len(invocations), ok \in BOOLEAN :
          LET workflow_invocation_name == ToString(i)
              details == WorkflowInvocationOf(workflow_invocation_name)
          IN  /\ calls' = <<Call("GetWorkflowInvocation", workflow_invocation_name)>>
              /\ IF ok
                 THEN /\ observed' = Some(details.state)
                      /\ result' = IF details.state \in {"FAILED", "CANCELLED"}
                                   THEN Raised("WorkflowInvocationError", Some(details.state))
                                   ELSE Returned(details)
                 ELSE /\ observed' = None
                      /\ result' = Raised("RemoteServiceError", None)
    /\ pc' = "idle"
    /\ UNCHANGED <<remote, external, resourceVars, _assets, _asset_checks, loader, compilation_result_name, response, scoping_filter, created, builtFrom, compilation_actions, arguments, invocations, elapsed>>

\* get_workflow_invocation_details(workflow_invocation_name): one
\* GetWorkflowInvocation call, whose response is returned as it is.
get_workflow_invocation_details ==
    /\ pc = "idle"
    /\ op' = "get_workflow_invocation_details"
    /\ \E i \in 1..Len(invocations), ok \in BOOLEAN :
          LET workflow_invocation_name == ToString(i)
              details == WorkflowInvocationOf(workflow_invocation_name)
          IN  /\ calls' = <<Call("GetWorkflowInvocation", workflow_invocation_name)>>
              /\ IF ok
                 THEN /\ observed' = Some(details.state)
                      /\ result' = Returned(details)
                 ELSE /\ observed' = None
                      /\ result' = Raised("RemoteServiceError", None)
    /\ pc' = "idle"
    /\ UNCHANGED <<remote, external, resourceVars, _assets, _asset_checks, loader, compilation_result_name, response, scoping_filter, created, builtFrom, compilation_actions, arguments, invocations, elapsed>>

\* The name of the workflow invocation the running submit_and_await created:
\* the newest of the repository.
Submitted == ToString(Len(invocations))

\* Mutant of submit_and_await_fetch: it fetches again after a terminal state.
submit_and_await_fetch_once_more ==
    /\ pc = "fetch"
    /\ op = "submit_and_await"
    /\ \E ok \in BOOLEAN :
         LET details == WorkflowInvocationOf(Submitted)
         IN  /\ calls' = Append(calls, Call("GetWorkflowInvocation", Submitted))
             /\ IF ~ok
                THEN /\ result' = Raised("RemoteServiceError", None)
                     /\ pc' = "idle"
                     /\ UNCHANGED <<observed, elapsed>>
                ELSE /\ observed' = Some(details.state)
                     /\ IF details.state \in TerminalStates /\ observed # None /\ observed[1] \in TerminalStates
                        THEN /\ result' = Returned(details)
                             /\ pc' = "idle"
                             /\ UNCHANGED elapsed
                        ELSE IF details.state \notin TerminalStates /\ elapsed >= arguments.timeout
                        THEN /\ result' = Raised("InvocationTimeoutError", Some(details.state))
                             /\ pc' = "idle"
                             /\ UNCHANGED elapsed
                        ELSE /\ elapsed' = elapsed + arguments.poll_interval
                             /\ pc' = "fetch"
                             /\ UNCHANGED result
    /\ UNCHANGED <<remote, external, resourceVars, _assets, _asset_checks, op, loader, compilation_result_name, response, scoping_filter, created, builtFrom, compilation_actions, arguments, invocations>>

\* Mutant of submit_and_await_fetch: on timeout the workflow invocation is
\* cancelled before the error is raised.
submit_and_await_fetch_cancelling ==
    /\ pc = "fetch"
    /\ op = "submit_and_await"
    /\ \E ok \in BOOLEAN :
         LET details == WorkflowInvocationOf(Submitted)
         IN  IF ~ok
             THEN /\ calls' = Append(calls, Call("GetWorkflowInvocation", Submitted))
                  /\ result' = Raised("RemoteServiceError", None)
                  /\ pc' = "idle"
                  /\ UNCHANGED <<observed, elapsed, invocations>>
             ELSE /\ observed' = Some(details.state)
                  /\ IF details.state \in TerminalStates
                     THEN /\ calls' = Append(calls, Call("GetWorkflowInvocation", Submitted))
                          /\ result' = Returned(details)
                          /\ pc' = "idle"
                          /\ UNCHANGED <<elapsed, invocations>>
                     ELSE IF elapsed >= arguments.timeout
                     THEN /\ calls' = calls \o <<Call("GetWorkflowInvocation", Submitted), Call("CancelWorkflowInvocation", Submitted)>>
                          /\ invocations' = [invocations EXCEPT ![Len(invocations)] = "CANCELLED"]
                          /\ result' = Raised("InvocationTimeoutError", Some(details.state))
                          /\ pc' = "idle"
                          /\ UNCHANGED elapsed
                     ELSE /\ calls' = Append(calls, Call("GetWorkflowInvocation", Submitted))
                          /\ elapsed' = elapsed + arguments.poll_interval
                          /\ pc' = "fetch"
                          /\ UNCHANGED <<result, invocations>>
    /\ UNCHANGED <<remote, external, resourceVars, _assets, _asset_checks, op, loader, compilation_result_name, response, scoping_filter, created, builtFrom, compilation_actions, arguments>>

\* submit_and_await, one fetch of the status and what follows it: a terminal
\* state is returned; a state that is not terminal raises
\* InvocationTimeoutError with that state once the timeout has elapsed, and
\* otherwise the monitor waits poll_interval and fetches again.
submit_and_await_fetch ==
    /\ pc = "fetch"
    /\ op = "submit_and_await"
    /\ \E ok \in BOOLEAN :
         LET details == WorkflowInvocationOf(Submitted)
         IN  /\ calls' = Append(calls, Call("GetWorkflowInvocation", Submitted))
             /\ IF ~ok
                THEN /\ result' = Raised("RemoteServiceError", None)
                     /\ pc' = "idle"
                     /\ UNCHANGED <<observed, elapsed>>
                ELSE /\ observed' = Some(details.state)
                     /\ IF details.state \in TerminalStates
                        THEN /\ result' = Returned(details)
                             /\ pc' = "idle"
                             /\ UNCHANGED elapsed
                        ELSE IF elapsed >= arguments.timeout
                        THEN /\ result' = Raised("InvocationTimeoutError", Some(details.state))
                             /\ pc' = "idle"
                             /\ UNCHANGED elapsed
                        ELSE /\ elapsed' = elapsed + arguments.poll_interval
                             /\ pc' = "fetch"
                             /\ UNCHANGED result
    /\ UNCHANGED <<remote, external, resourceVars, _assets, _asset_checks, op, loader, compilation_result_name, response, scoping_filter, created, builtFrom, compilation_actions, arguments, invocations>>

\* submit_and_await(request, poll_interval, timeout): the request is submitted
\* once, then the status is fetched.
submit_and_await ==
    /\ pc = "idle"
    /\ Len(invocations) < MaxInvocations
    /\ op' = "submit_and_await"
    /\ calls' = <<Call("CreateWorkflowInvocation", WorkflowInvocation(arguments))>>
    /\ observed' = None
    /\ elapsed' = 0
    /\ \E ok \in BOOLEAN :
         IF ok
         THEN /\ invocations' = Append(invocations, "PENDING")
              /\ result' = Running
              /\ pc' = "fetch"
         ELSE /\ invocations' = invocations
              /\ result' = Raised("RemoteServiceError", None)
              /\ pc' = "idle"
    /\ UNCHANGED <<remote, external, resourceVars, _assets, _asset_checks, loader, compilation_result_name, response, scoping_filter, created, builtFrom, compilation_actions, arguments>>

\* ------------------------------------- specification of the monitor alone
\* A lazily constructed resource whose callers submit a request and await the
\* workflow invocation, or ask for the details of one, while the service runs
\* the workflow invocations.
MonitorArguments ==
    [compilation_result_name : {"1"},
     included_targets : {<<Name("t")>>},
     included_tags : {<<>>},
     transitive_dependencies_included : {None},
     transitive_dependents_included : {None},
     fully_refresh_incremental_tables_enabled : {None},
     service_account : {None},
     poll_interval : 1..MaxPollInterval,
     timeout : 0..MaxTimeout]

InitMonitor ==
    /\ remote = <<>>
    /\ external = 0
    /\ environment = "dev"
    /\ skip_compilation = TRUE
    /\ _assets = None
    /\ _asset_checks = None
    /\ pc = "idle"
    /\ op = "__init__"
    /\ loader = "assets"
    /\ calls = <<>>
    /\ result = Returned(None)
    /\ compilation_result_name = None
    /\ response = None
    /\ scoping_filter = None
    /\ created = NoneYet
    /\ builtFrom = NoneYet
    /\ compilation_actions = <<>>
    /\ arguments \in MonitorArguments
    /\ invocations = <<>>
    /\ observed = None
    /\ elapsed = 0

NextMonitor ==
    \/ create_workflow_invocation
    \/ submit_and_await
    \/ submit_and_await_fetch
    \/ get_workflow_invocation_details
    \/ InvocationAdvances

SpecMonitor == InitMonitor /\ [][NextMonitor]_vars

\* ------------------ specification of construction against a fixed listing
\* The resource on a client whose list of compilation results is fixed, as the
\* client of the tests is: create_compilation_result returns a result that the
\* list does not show, so the resolution sees the listed results alone and
\* may find none for the environment.

\* The list the parameters f[1], ..., f[n] describe, newest first, each
\* result compiled from the project a.
ListingOf(f, n, a) ==
    [i \in 1..n |-> CompilationResult(ToString(n + 1 - i), f[i][1], f[i][2], f[i][3], a)]

FixedListings ==
    UNION { { ListingOf(f, n, a) : f \in [1..n -> SnapshotParams], a \in Projects } : n \in 0..MaxListed }

\* create_compilation_result on that client: the call is made and answered,
\* and the list stays as it was.
create_compilation_result_unlisted ==
    /\ pc = "create"
    /\ \E ok \in BOOLEAN :
         IF ok
         THEN /\ calls' = Append(calls, Call("CreateCompilationResult", environment))
              /\ created' = [created EXCEPT ![loader] = Some(NextName)]
              /\ pc' = "list"
              /\ UNCHANGED <<remote, external, resourceVars, _assets, _asset_checks, op, loader, result, compilation_result_name, response, scoping_filter, builtFrom, compilation_actions, invocationVars>>
         ELSE Fails("CreateCompilationResult", environment)

InitFixed ==
    /\ remote \in FixedListings
    /\ external = 0
    /\ environment \in Envs
    /\ skip_compilation \in BOOLEAN
    /\ _assets = None
    /\ _asset_checks = None
    /\ pc = "new"
    /\ op = "none"
    /\ loader = "assets"
    /\ calls = <<>>
    /\ result = Running
    /\ compilation_result_name = None
    /\ response = None
    /\ scoping_filter = None
    /\ created = NoneYet
    /\ builtFrom = NoneYet
    /\ compilation_actions = <<>>
    /\ NoInvocations

NextFixed ==
    \/ __init__
    \/ create_compilation_result_unlisted
    \/ get_latest_compilation_result_name
    \/ query_compilation_result_actions
    \/ assets
    \/ asset_checks

SpecFixed == InitFixed /\ [][NextFixed]_vars

\* ---------------------------------------------------------------- claims
\* A call of get_latest_compilation_result_name without a filter has returned
\* or raised, and its list call had returned.
FindLatestDone ==
    /\ op = "get_latest_compilation_result_name"
    /\ pc = "idle"
    /\ scoping_filter = None
    /\ response # None

\* Entry i of the listed results is for the resource's environment and
\* carries no table prefix.
Qualifies(listed, i) ==
    /\ listed[i].git_commitish = environment
    /\ listed[i].code_compilation_config.table_prefix = ""

\* C1: whatever list the service returns, get_latest_compilation_result_name
\* returns the name of the first entry, in the order of the list, that is for
\* the resource's environment and has an empty table_prefix: the entry it
\* returns qualifies, no entry before it does, and when some entry qualifies
\* one is returned.
C1_FirstQualifying ==
    FindLatestDone =>
        LET listed == response[1]
        IN  /\ result.status = "ok"
            /\ result.value # None =>
                 \E i \in 1..Len(listed) :
                    /\ listed[i].name = result.value[1]
                    /\ Qualifies(listed, i)
                    /\ \A j \in 1..(i - 1) : ~Qualifies(listed, j)
            /\ (\E i \in 1..Len(listed) : Qualifies(listed, i)) => result.value # None

\* The call returned the second entry of the list, after skipping a first
\* entry for the same environment that carries a table prefix.
C1_Witness ==
    /\ FindLatestDone
    /\ Len(response[1]) >= 2
    /\ response[1][1].git_commitish = environment
    /\ response[1][1].code_compilation_config.table_prefix # ""
    /\ result = Returned(Some(response[1][2].name))

\* C2: called with default_database set, get_latest_compilation_result_name
\* returns only a result for the environment whose default_database equals the
\* filter, and returns one when there is one (a sole result for the
\* environment with database D1 is returned for the filter D1, and nothing is
\* found for another filter).
C2_FilterRespected ==
    (op = "get_latest_compilation_result_name" /\ pc = "idle" /\ scoping_filter # None) =>
        LET fits(i) == /\ Qualifies(remote, i)
                       /\ remote[i].code_compilation_config.default_database = scoping_filter[1]
        IN  /\ result.status = "ok"
            /\ result.value # None =>
                 \E i \in 1..Len(remote) : remote[i].name = result.value[1] /\ fits(i)
            /\ (\E i \in 1..Len(remote) : fits(i)) => result.value # None

\* C3: on an empty list, and on a list no entry of which qualifies,
\* get_latest_compilation_result_name returns None and does not raise.
C3_NotFoundIsNone ==
    (FindLatestDone /\ \A i \in 1..Len(response[1]) : ~Qualifies(response[1], i)) =>
        result = Returned(None)

\* The call returned None on a list of two entries, one for another
\* environment and one with a table prefix.
C3_Witness ==
    /\ FindLatestDone
    /\ Len(response[1]) = 2
    /\ \E i \in 1..2 : response[1][i].git_commitish # environment
    /\ \E i \in 1..2 : response[1][i].git_commitish = environment
    /\ result = Returned(None)

\* A lazily constructed resource is running, or has last run, one of its two
\* getters.
LazyRead == skip_compilation /\ op \in {"assets", "asset_checks"}

\* The cell of the getter op.
Cell == IF op = "assets" THEN _assets ELSE _asset_checks

NoneQualifies(listed) == \A i \in 1..Len(listed) : ~Qualifies(listed, i)

HasCall(rpc) == \E i \in 1..Len(calls) : calls[i].rpc = rpc

\* A lazy getter has ended after a list call that found nothing: it raised
\* the Exception naming the environment (not a remote-service error), made no
\* query call, and its cell is still unloaded.
C4_Raised ==
    (LazyRead /\ pc = "idle" /\ response # None /\ NoneQualifies(response[1])) =>
        /\ result = Raised("Exception", Some(environment))
        /\ ~HasCall("QueryCompilationResultActions")
        /\ Cell = None

\* The next read of a getter that raised so lists the compilation results
\* again.
C4_Retries ==
    (LazyRead /\ pc = "idle" /\ result.status = "Exception" /\ (assets \/ asset_checks) /\ op' = op) =>
        pc' = "list"

\* C4: with skip_compilation, a read of assets or of asset_checks that finds no
\* qualifying compilation result raises an error naming the environment,
\* distinct from a remote-service error, without a query call, and leaves its
\* cell unloaded, so that the next read resolves again.
C4_MissingCompilation == []C4_Raised /\ [][C4_Retries]_vars

\* A read of assets raised for want of a compilation result, although the
\* repository holds results (for another environment, or with a prefix).
C4_Witness ==
    /\ LazyRead
    /\ op = "assets"
    /\ pc = "idle"
    /\ response # None
    /\ response[1] # <<>>
    /\ result.status = "Exception"
    /\ _assets = None

\* The name get_latest_compilation_result_name is to resolve on a list: that
\* of its first qualifying entry.
Resolved(listed) ==
    LET i == CHOOSE i \in 1..Len(listed) : Qualifies(listed, i) /\ \A j \in 1..(i - 1) : ~Qualifies(listed, j)
    IN  listed[i].name

\* With skip_compilation the constructor makes no remote call and leaves both
\* cells unloaded; no operation makes a create call; a getter makes at most
\* one list call and then at most one query call; and a getter that loaded
\* its cell made exactly a list call and then a query call of the result the
\* list resolves to.
C5_Calls ==
    skip_compilation =>
        /\ (op = "__init__" /\ pc = "idle") => (calls = <<>> /\ _assets = None /\ _asset_checks = None)
        /\ ~HasCall("CreateCompilationResult")
        /\ LazyRead =>
              /\ Len(calls) <= 2
              /\ Len(calls) >= 1 => calls[1] = Call("ListCompilationResults", "")
              /\ Len(calls) = 2 => calls[2].rpc = "QueryCompilationResultActions"
        /\ (LazyRead /\ pc = "query") => calls = <<Call("ListCompilationResults", "")>>
        /\ (LazyRead /\ pc = "idle" /\ result.status = "ok" /\ response # None) =>
              /\ ~NoneQualifies(response[1])
              /\ calls = <<Call("ListCompilationResults", ""), Call("QueryCompilationResultActions", Resolved(response[1]))>>
              /\ Cell # None

\* With skip_compilation the read of an unloaded cell starts a load, with no
\* call made before its list call.
C5_FirstReadLoads ==
    (skip_compilation /\ ((assets /\ _assets = None) \/ (asset_checks /\ _asset_checks = None))) =>
        (pc' = "list" /\ calls' = <<>>)

\* C5: in lazy mode construction makes no remote call and leaves both cells
\* unloaded, and the first read of an artifact runs one cycle: one list call,
\* then one query call on the resolved compilation result, and no create call.
C5_LazyOneCycle == []C5_Calls /\ [][C5_FirstReadLoads]_vars

\* A first read of assets loaded them from the second entry of a list of two.
C5_Witness ==
    /\ LazyRead
    /\ op = "assets"
    /\ pc = "idle"
    /\ result.status = "ok"
    /\ response # None
    /\ Len(response[1]) = 2
    /\ Len(calls) = 2
    /\ calls[2].arg = response[1][2].name
    /\ _assets # None

\* A loaded cell is left as it is by every step, of the resource and of the
\* other clients, and a read of it returns its list at once, without a call.
C6_Step ==
    /\ (_assets # None) => (_assets' = _assets)
    /\ (_asset_checks # None) => (_asset_checks' = _asset_checks)
    /\ (assets /\ _assets # None) =>
          (pc' = "idle" /\ calls' = <<>> /\ result' = Returned(_assets[1]))
    /\ (asset_checks /\ _asset_checks # None) =>
          (pc' = "idle" /\ calls' = <<>> /\ result' = Returned(_asset_checks[1]))

\* C6: once a cell is loaded it never changes, whatever happens remotely, and
\* every read of it returns the memoized list without a remote call; an empty
\* memoized list is no exception.
C6_MemoizedForever == [][C6_Step]_vars

\* A read of assets without any call returned the memoized empty list, while
\* the repository's latest qualifying compilation result is another one, with
\* actions.
C6_Witness ==
    /\ skip_compilation
    /\ op = "assets"
    /\ pc = "idle"
    /\ calls = <<>>
    /\ _assets = Some(<<>>)
    /\ result = Returned(<<>>)
    /\ FirstMatch(remote, environment) # builtFrom.assets
    /\ ActionsOf(FirstMatch(remote, environment)[1]) # <<>>

\* No step of a read of one artifact loads the unloaded cell of the other.
C7_Step ==
    skip_compilation =>
        /\ (op' = "assets" /\ _asset_checks = None) => _asset_checks' = None
        /\ (op' = "asset_checks" /\ _assets = None) => _assets' = None

\* C7: in lazy mode a read of assets leaves an unloaded checks cell unloaded,
\* and a read of asset_checks leaves an unloaded assets cell unloaded.
C7_Independent == [][C7_Step]_vars

\* The assets are loaded, with an asset in them, and the checks are not.
C7_Witness ==
    /\ skip_compilation
    /\ op = "assets"
    /\ pc = "idle"
    /\ _assets # None
    /\ _assets # Some(<<>>)
    /\ _asset_checks = None

\* The checks are loaded and the assets are not.
C7_WitnessChecksFirst ==
    /\ skip_compilation
    /\ op = "asset_checks"
    /\ pc = "idle"
    /\ _asset_checks # None
    /\ _asset_checks # Some(<<>>)
    /\ _assets = None

\* C8: in eager mode each artifact is built from the actions of the
\* compilation result its own create call returned.
C8_BuiltFromCreated ==
    ~skip_compilation =>
        /\ (_assets # None) => (builtFrom.assets = created.assets)
        /\ (_asset_checks # None) => (builtFrom.checks = created.checks)

\* C9: whenever both cells of a resource are loaded, the assets and the checks
\* were built from the same compilation result.
C9_SameSnapshot ==
    (_assets # None /\ _asset_checks # None) => (builtFrom.assets = builtFrom.checks)

\* A relation whose asset spec the host accepts, and no assertion.
WellFormedRelation(asset) ==
    /\ IsRelation(asset)
    /\ ~IsAssertion(asset)
    /\ asset.target.schema \notin InvalidDagsterNames

Range(seq) == {seq[i] : i \in 1..Len(seq)}

\* C10: on N well-formed relations and no assertion, either pair of builders
\* yields N asset specs and no check; the i-th asset spec has the name of the
\* i-th relation's target as its key, and its dependencies are the names of the
\* relation's dependency targets, whatever their database and schema.
C10_RelationsOnly ==
    (pc = "built" /\ \A i \in 1..Len(compilation_actions) : WellFormedRelation(compilation_actions[i])) =>
        /\ Len(_assets[1]) = Len(compilation_actions)
        /\ _asset_checks[1] = <<>>
        /\ \A i \in 1..Len(compilation_actions) :
              /\ _assets[1][i].key = compilation_actions[i].target.name
              /\ Range(_assets[1][i].deps) = {t.name : t \in Range(compilation_actions[i].relation.dependency_targets)}

\* Two asset specs were built from two relations, the second of them with two
\* dependency targets of one name in two schemas.
C10_Witness ==
    /\ pc = "built"
    /\ Len(compilation_actions) = 2
    /\ \A i \in 1..2 : WellFormedRelation(compilation_actions[i])
    /\ compilation_actions[2].relation.dependency_targets = <<Target("p", "ds", "a"), Target("p", "other", "a")>>
    /\ Len(_assets[1]) = 2
    /\ _assets[1][2].deps = <<"a", "a">>

\* The positions of the actions that are well-formed relations.
WellFormedRelationIndexes ==
    {i \in 1..Len(compilation_actions) : WellFormedRelation(compilation_actions[i])}

\* C11: an asset spec is built once per relation and for relations only: on a
\* list mixing relations and assertions, the number of asset specs equals the
\* number of well-formed relations, and no asset spec has the key of an
\* assertion's target.
C11_OnePerRelation ==
    pc = "built" =>
        /\ Len(_assets[1]) = Cardinality(WellFormedRelationIndexes)
        /\ \A i \in 1..Len(compilation_actions) :
              IsAssertion(compilation_actions[i]) =>
                  \A j \in 1..Len(_assets[1]) : _assets[1][j].key # compilation_actions[i].target.name

\* The positions of the assertions whose check the host accepts.
WellFormedAssertionIndexes ==
    {i \in 1..Len(compilation_actions) :
        /\ IsAssertion(compilation_actions[i])
        /\ compilation_actions[i].target.name \notin InvalidDagsterNames}

\* C12: in the eager and in the lazy path, exactly one check is built for every
\* assertion, named by the assertion's target name and bound to the name of its
\* parent action, whatever the assertion's dependency targets and whether or
\* not the parent is among the asset specs; no check is built for an action
\* that is not an assertion.
C12_OnePerAssertion ==
    pc = "built" =>
        /\ Len(_asset_checks[1]) = Cardinality(WellFormedAssertionIndexes)
        /\ \A i \in WellFormedAssertionIndexes :
              \E j \in 1..Len(_asset_checks[1]) :
                  /\ _asset_checks[1][j].name = compilation_actions[i].target.name
                  /\ _asset_checks[1][j].asset_key = compilation_actions[i].assertion.parent_action.name

\* An action for which the construction of its node raises: a relation whose
\* asset spec the host rejects, an assertion whose check the host rejects; an
\* action without a target is both.
Malformed(asset) ==
    IF IsAssertion(asset) THEN CheckRaises(asset) ELSE AssetSpecRaises(asset)

ValidRelation(asset) == IsRelation(asset) /\ ~IsAssertion(asset) /\ ~Malformed(asset)

ValidAssertion(asset) == IsAssertion(asset) /\ ~Malformed(asset)

TargetNameOf(seq) == [i \in 1..Len(seq) |-> seq[i].target.name]

\* C13: on a list with one malformed action among valid ones, wherever it
\* sits, the builders yield the nodes of the valid actions in input order: the
\* asset specs are those of the valid relations, the checks those of the valid
\* assertions, and the malformed action yields nothing.
C13_MalformedSkipped ==
    (/\ pc = "built"
     /\ Cardinality({i \in 1..Len(compilation_actions) : Malformed(compilation_actions[i])}) = 1) =>
        /\ [i \in 1..Len(_assets[1]) |-> _assets[1][i].key]
              = TargetNameOf(SelectSeq(compilation_actions, ValidRelation))
        /\ [i \in 1..Len(_asset_checks[1]) |-> _asset_checks[1][i].name]
              = TargetNameOf(SelectSeq(compilation_actions, ValidAssertion))

\* The metadata key under which _process_assets records the compilation result.
HasSnapshotReference(spec) == "dataform_compilation_result" \in DOMAIN spec.metadata

\* The asset specs of a lazy resource all carry the name of the compilation
\* result they were built from; those of an eager resource carry none.
C14_Carried ==
    (_assets # None) =>
        \A i \in 1..Len(_assets[1]) :
            IF skip_compilation
            THEN /\ HasSnapshotReference(_assets[1][i])
                 /\ builtFrom.assets = Some(_assets[1][i].metadata["dataform_compilation_result"])
            ELSE ~HasSnapshotReference(_assets[1][i])

\* The step of a lazy load that builds the asset specs gives them the name
\* get_latest_compilation_result_name returned for that load.
C14_Step ==
    (skip_compilation /\ _assets = None /\ _assets' # None) =>
        /\ compilation_result_name = Some(Resolved(response[1]))
        /\ \A i \in 1..Len(_assets'[1]) :
              /\ HasSnapshotReference(_assets'[1][i])
              /\ compilation_result_name = Some(_assets'[1][i].metadata["dataform_compilation_result"])

\* C14: every asset spec built in the lazy path carries in its metadata the
\* name of the compilation result it was built from, which is the name
\* get_latest_compilation_result_name returned for that load; the asset specs
\* built in the eager path carry no such entry.
C14_SnapshotReference == []C14_Carried /\ [][C14_Step]_vars

\* A lazy load built asset specs from the second compilation result, the first
\* being of another environment.
C14_Witness ==
    /\ skip_compilation
    /\ Len(remote) = 2
    /\ remote[2].git_commitish # environment
    /\ _assets # None
    /\ Len(_assets[1]) = 2
    /\ _assets[1][1].metadata["dataform_compilation_result"] = "2"

\* A call of create_workflow_invocation has sent its request.
Planned == op = "create_workflow_invocation" /\ calls # <<>>

\* The workflow invocation of the request sent.
Requested == calls[1].arg

\* The caller gave at least one of targets, tags and service account.
SelectionGiven ==
    \/ arguments.included_targets # <<>>
    \/ arguments.included_tags # <<>>
    \/ arguments.service_account \notin {None, Some("")}

\* C15: the request of create_workflow_invocation has an invocation config if
\* and only if at least one of included_targets, included_tags and
\* service_account is non-empty; with none of them it carries the compilation
\* result alone, whatever the three flags are.
C15_SelectionIffOptions ==
    Planned =>
        /\ (Requested.invocation_config # None) <=> SelectionGiven
        /\ ~SelectionGiven =>
              Requested = [compilation_result |-> arguments.compilation_result_name,
                           invocation_config |-> None]

\* A request without invocation config was sent although the caller set the
\* flags for dependents and for a full refresh.
C15_Witness ==
    /\ Planned
    /\ result.status = "ok"
    /\ ~SelectionGiven
    /\ arguments.service_account = Some("")
    /\ arguments.transitive_dependents_included = Some(TRUE)
    /\ arguments.fully_refresh_incremental_tables_enabled = Some(TRUE)
    /\ Requested.invocation_config = None

\* The caller left the three flags to their defaults.
NoFlagOverrides ==
    /\ arguments.transitive_dependencies_included = None
    /\ arguments.transitive_dependents_included = None
    /\ arguments.fully_refresh_incremental_tables_enabled = None

\* The name the caller gave a target.
RequestedName(target) == IF IsDict(target) THEN Get(target.dict, "name") ELSE target.str

\* C16: with a selection and no flag given, the invocation config includes
\* dependencies, excludes dependents and does not fully refresh; its targets
\* are as many as the requested ones and in their order, its tags are the
\* requested tags; for included_targets = ["t"] it has the one target of name t
\* with empty database and schema.
C16_DefaultsAndOrder ==
    (Planned /\ SelectionGiven /\ NoFlagOverrides) =>
        LET config == Requested.invocation_config[1]
        IN  /\ config.transitive_dependencies_included = TRUE
            /\ config.transitive_dependents_included = FALSE
            /\ config.fully_refresh_incremental_tables_enabled = FALSE
            /\ Len(config.included_targets) = Len(arguments.included_targets)
            /\ \A i \in 1..Len(arguments.included_targets) :
                  config.included_targets[i].name = RequestedName(arguments.included_targets[i])
            /\ config.included_tags = arguments.included_tags
            /\ (arguments.included_targets = <<Name("t")>>) =>
                  config.included_targets = <<Target("", "", "t")>>

\* The request for included_targets = ["t"] and nothing else was sent.
C16_Witness ==
    /\ Planned
    /\ result.status = "ok"
    /\ NoFlagOverrides
    /\ arguments.included_targets = <<Name("t")>>
    /\ arguments.included_tags = <<>>
    /\ arguments.service_account = None
    /\ Requested.invocation_config # None

\* C17: a target given as a bare name yields a request target with only the
\* name set; a target given as a dict yields a request target with exactly the
\* non-empty fields of the dict set, to the values given; no request target
\* has a field the caller did not give, and every request target has a
\* non-empty name.
C17_TargetsPreserved ==
    (Planned /\ arguments.included_targets # <<>>) =>
        LET targets == Requested.invocation_config[1].included_targets
        IN  \A i \in 1..Len(arguments.included_targets) :
                LET given == arguments.included_targets[i]
                IN  /\ IsDict(given) =>
                           \A field \in {"database", "schema", "name"} :
                               targets[i][field] = Get(given.dict, field)
                    /\ ~IsDict(given) => targets[i] = Target("", "", given.str)
                    /\ targets[i].name # ""

\* How many calls of a remote procedure the operation op has made.
CallsOf(rpc) == Cardinality({i \in 1..Len(calls) : calls[i].rpc = rpc})

Awaiting == op = "submit_and_await"

\* Whatever submit_and_await has done so far, it submitted once, first, and
\* every other call fetched the workflow invocation submitted; it does not
\* end, but on a remote failure, without a fetch.
C18_SubmitsOnce ==
    Awaiting =>
        /\ calls # <<>>
        /\ calls[1] = Call("CreateWorkflowInvocation", WorkflowInvocation(arguments))
        /\ \A i \in 2..Len(calls) : calls[i] = Call("GetWorkflowInvocation", Submitted)
        /\ (pc = "idle" /\ result.status # "RemoteServiceError") => CallsOf("GetWorkflowInvocation") >= 1

\* The step is a fetch of submit_and_await.
Fetches ==
    /\ Awaiting
    /\ op' = op
    /\ Len(calls') = Len(calls) + 1
    /\ calls'[Len(calls')].rpc = "GetWorkflowInvocation"

\* A fetch is never made after a terminal state was observed; a fetch that
\* reports a terminal state returns it at once, the initial fetch included;
\* one that does not, before the timeout, waits poll_interval and is followed
\* by another fetch.
C18_Fetch ==
    Fetches =>
        /\ observed = None \/ observed[1] \notin TerminalStates
        /\ (observed = None) <=> (Len(calls) = 1)
        /\ (result'.status # "RemoteServiceError") =>
              /\ observed' = Some(invocations[Len(invocations)])
              /\ (observed'[1] \in TerminalStates) =>
                    /\ pc' = "idle"
                    /\ result'.status = "ok"
                    /\ result'.value = [name |-> Submitted, state |-> observed'[1]]
                    /\ elapsed' = elapsed
              /\ (observed'[1] \notin TerminalStates /\ elapsed < arguments.timeout) =>
                    /\ pc' = "fetch"
                    /\ result' = Running
                    /\ elapsed' = elapsed + arguments.poll_interval

\* C18: submit_and_await submits the request once and then fetches the status
\* of the workflow invocation; it returns at once if the initial fetch reports
\* a terminal state (SUCCEEDED, FAILED, CANCELLED), otherwise it fetches again
\* every poll_interval until a terminal state or the timeout; it issues no
\* GetWorkflowInvocation after it has observed a terminal state.
C18_SubmitThenPoll == []C18_SubmitsOnce /\ [][C18_Fetch]_vars

\* submit_and_await returned a terminal state from its second fetch, the first
\* having found the workflow invocation still running.
C18_Witness ==
    /\ Awaiting
    /\ pc = "idle"
    /\ Len(calls) = 3
    /\ result.status = "ok"
    /\ result.value.state \in TerminalStates
    /\ elapsed = arguments.poll_interval

\* submit_and_await returned from its initial fetch.
C18_WitnessImmediate ==
    /\ Awaiting
    /\ pc = "idle"
    /\ Len(calls) = 2
    /\ result.status = "ok"
    /\ result.value.state = "SUCCEEDED"
    /\ elapsed = 0

\* An InvocationTimeoutError is raised by submit_and_await only, after the
\* timeout, with the state of the last fetch, which is not terminal, and no
\* call but the submission and the fetches was made.
C19_Raised ==
    (result.status = "InvocationTimeoutError") =>
        /\ Awaiting
        /\ pc = "idle"
        /\ elapsed >= arguments.timeout
        /\ observed # None
        /\ observed[1] \notin TerminalStates
        /\ result.value = observed
        /\ CallsOf("CreateWorkflowInvocation") + CallsOf("GetWorkflowInvocation") = Len(calls)

\* A fetch that finds no terminal state once the timeout has elapsed raises
\* InvocationTimeoutError with the state fetched, and the step that raises it
\* leaves every workflow invocation in the state it has.
C19_Step ==
    /\ (/\ Fetches
        /\ result'.status # "RemoteServiceError"
        /\ invocations[Len(invocations)] \notin TerminalStates
        /\ elapsed >= arguments.timeout) =>
            /\ result'.status = "InvocationTimeoutError"
            /\ result'.value = Some(invocations[Len(invocations)])
            /\ pc' = "idle"
    /\ (result.status # "InvocationTimeoutError" /\ result'.status = "InvocationTimeoutError") =>
            invocations' = invocations

\* C19: when the timeout has elapsed and no terminal state has been observed,
\* submit_and_await fails with InvocationTimeoutError carrying the last state
\* observed, which is not terminal; it cancels nothing, and the workflow
\* invocation is left in the state it has.
C19_TimeoutKeepsInvocation == []C19_Raised /\ [][C19_Step]_vars

\* submit_and_await timed out after two fetches, and the workflow invocation
\* is still running.
C19_Witness ==
    /\ result.status = "InvocationTimeoutError"
    /\ result.value = Some("RUNNING")
    /\ Len(calls) = 3
    /\ arguments.timeout > 0
    /\ invocations[Len(invocations)] = "RUNNING"

\* C20: an operation that has observed a workflow invocation FAILED or
\* CANCELLED has ended and returned the workflow invocation in that state as
\* its value, not raised it; the fetch that observed it was its last remote
\* call, and it has created no workflow invocation since.
C20_FailedIsAValue ==
    (/\ op \in {"get_workflow_invocation_details", "submit_and_await"}
     /\ observed # None
     /\ observed[1] \in {"FAILED", "CANCELLED"}) =>
        /\ pc = "idle"
        /\ result.status = "ok"
        /\ result.value.state = observed[1]
        /\ calls[Len(calls)].rpc = "GetWorkflowInvocation"
        /\ CallsOf("CreateWorkflowInvocation") = (IF Awaiting THEN 1 ELSE 0)
        /\ Awaiting => calls[1].rpc = "CreateWorkflowInvocation"

\* get_workflow_invocation_details returned a FAILED workflow invocation.
C20_Witness ==
    /\ op = "get_workflow_invocation_details"
    /\ result.status = "ok"
    /\ result.value = [name |-> "1", state |-> "FAILED"]
    /\ calls = <<Call("GetWorkflowInvocation", "1")>>

\* An asset spec without the metadata entry that names the compilation result.
WithoutSnapshotReference(spec) ==
    [spec EXCEPT !.metadata = [key \in DOMAIN spec.metadata \ {"dataform_compilation_result"} |-> spec.metadata[key]]]

AllWithoutSnapshotReference(specs) ==
    [i \in 1..Len(specs) |-> WithoutSnapshotReference(specs[i])]

\* The asset specs one pair of builders built are those the other pair builds
\* from the same actions, the metadata entry of the compilation result apart.
C21_SameAssets ==
    pc = "built" =>
        AllWithoutSnapshotReference(_assets[1])
            = AllWithoutSnapshotReference(
                  IF skip_compilation
                  THEN load_dataform_assets_loop(compilation_actions, asset_fresh_policy_lag_minutes)
                  ELSE _process_assets(compilation_actions, compilation_result_name[1]))

\* The checks one pair of builders built are those the other pair builds from
\* the same actions, in the same order.
C21_SameChecks ==
    pc = "built" =>
        _asset_checks[1]
            = (IF skip_compilation
               THEN load_dataform_asset_check_specs_loop(compilation_actions)
               ELSE _process_asset_checks(compilation_actions))

\* C21: on every action list the eager builders (load_dataform_assets,
\* load_dataform_asset_check_specs) and the lazy builders (_process_assets,
\* _process_asset_checks) build the same asset specs, the metadata entry of the
\* compilation result apart, and the same checks, in the same order.
C21_EagerLazyEquivalent == C21_SameAssets /\ C21_SameChecks

\* The remote procedures the resource calls.
RemoteProcedures ==
    {"CreateCompilationResult", "ListCompilationResults", "QueryCompilationResultActions",
     "CreateWorkflowInvocation", "GetWorkflowInvocation"}

\* The operation op issued no remote call more than once.
C22_AtMostOnce == \A rpc \in RemoteProcedures : CallsOf(rpc) <= 1

\* An operation in which a remote call failed has ended with the failure as
\* its outcome, the failed call being its last; a lazy getter that ended so
\* has left its cell unloaded.
C22_Propagated ==
    (HasCall("CreateCompilationResult") \/ HasCall("ListCompilationResults") \/ HasCall("QueryCompilationResultActions")) =>
        /\ (result.status = "RemoteServiceError") => pc \in {"idle", "aborted"}
        /\ (op = "assets" /\ result.status = "RemoteServiceError") => _assets = None
        /\ (op = "asset_checks" /\ result.status = "RemoteServiceError") => _asset_checks = None

\* The step in which a remote call fails memoizes nothing, and the operation
\* it ends makes no further remote call.
C22_Step ==
    /\ (result.status # "RemoteServiceError" /\ result'.status = "RemoteServiceError") =>
          /\ _assets' = _assets
          /\ _asset_checks' = _asset_checks
          /\ Len(calls') = Len(calls) + 1
    /\ (result.status = "RemoteServiceError") => (calls' = calls \/ calls' = <<>>)

\* C22: a failure of a remote call (list, create, query) is propagated to the
\* caller of the operation and the call is not retried: every public operation
\* issues each remote call at most once; a failure during a lazy first read
\* leaves the cell unloaded and memoizes nothing.
C22_FailurePropagated == [](C22_AtMostOnce /\ C22_Propagated) /\ [][C22_Step]_vars

\* The list holds no compilation result for the resource's environment
\* without a table prefix.
NotFound == FirstMatch(remote, environment) = None

\* The constructor of an eager resource has returned.
EagerConstructed ==
    /\ ~skip_compilation
    /\ op = "__init__"
    /\ pc = "idle"
    /\ result = Returned(None)

\* Both loaders of the constructor made their create call and their list
\* call, in that order, and nothing else.
C23_CallsOfBothLoaders ==
    calls = << Call("CreateCompilationResult", environment), Call("ListCompilationResults", ""),
               Call("CreateCompilationResult", environment), Call("ListCompilationResults", "") >>

\* C23: outside the lazy path a resolution that finds nothing is tolerated.
\* While an eager constructor runs on a list with no result for the
\* environment, it never calls QueryCompilationResultActions and raises no
\* error of its own (a failure of the remote service apart), and when it
\* returns, both loaders have made their create and list calls and the
\* resource holds an empty asset list and an empty check list.
C23_NotFoundTolerated ==
    (~skip_compilation /\ op = "__init__" /\ NotFound) =>
        /\ ~HasCall("QueryCompilationResultActions")
        /\ result.status \in {"running", "ok", "RemoteServiceError"}
        /\ pc \in {"create", "list", "idle", "aborted"}
        /\ pc = "aborted" <=> result.status = "RemoteServiceError"
        /\ pc = "idle" => /\ result = Returned(None)
                          /\ C23_CallsOfBothLoaders
                          /\ _assets = Some(<<>>)
                          /\ _asset_checks = Some(<<>>)
                          /\ builtFrom = NoneYet

\* An eager constructor has returned on a list that holds results, none of
\* them for the environment without a prefix, and holds two empty lists.
C23_Witness ==
    /\ EagerConstructed
    /\ NotFound
    /\ remote # <<>>
    /\ \E i \in 1..Len(remote) : remote[i].compilation_result_actions # <<>>
    /\ C23_CallsOfBothLoaders
    /\ _assets = Some(<<>>)
    /\ _asset_checks = Some(<<>>)

====
